---- MODULE Spec2Model ----
(***************************************************************************)
(* NFT holder exporter: the batch-fetch-with-retry engine of the two       *)
(* scripts                                                                 *)
(*   src/unnamed/part_000          (get_nft_holders_web3.mjs, "buffered":  *)
(*                                  results kept in memory, sorted and      *)
(*                                  written once at the end)                *)
(*   src/get_nft_owners_by_id.mjs  ("immediate": each row written as soon  *)
(*                                  as its owner is known)                  *)
(* Each action is one run-to-completion step of the JavaScript event loop: *)
(* the synchronous code between two awaits / timer callbacks.              *)
(***************************************************************************)
EXTENDS Integers, Sequences, FiniteSets, TLC

\* ---------------------------------------------------------------- bounds
\* Token ids are drawn from 1..MaxTokenId, the batch size from 1..MaxBatchSize.
MaxTokenId == 3
MaxBatchSize == 2

\* ------------------------------------------------------ program constants
\* retry.operation({ retries: 10, factor: 2, minTimeout: 1000, maxTimeout: 8000 })
Retries == 10
Factor == 2
MinTimeout == 1000
MaxTimeout == 8000

TokenIds == 1..MaxTokenId

Scripts == {"buffered", "immediate"}

\* Addresses contract.ownerOf may return.
Owners == {"0xA", "0xB"}

\* ------------------------------------------------------------------ errors
\* An error is what the catch block reads of it: code, reason (a string,
\* modelled as its sequence of words; <<>> is an absent reason) and message.
ErrInvalidTokenId ==
  [code |-> "CALL_EXCEPTION",
   reason |-> <<"ERC721:", "invalid", "token", "ID">>,
   message |-> "execution reverted: ERC721: invalid token ID"]

ErrRevert ==
  [code |-> "CALL_EXCEPTION",
   reason |-> <<"paused">>,
   message |-> "execution reverted: paused"]

ErrNetwork ==
  [code |-> "NETWORK_ERROR",
   reason |-> <<>>,
   message |-> "network error"]

\* What csvWriter.writeRecords rejects with (a file system error).
ErrWrite ==
  [code |-> "EIO",
   reason |-> <<>>,
   message |-> "EIO: i/o error, write"]

\* The errors contract.ownerOf may reject with.
OwnerOfErrors == {ErrInvalidTokenId, ErrRevert, ErrNetwork}

\* ------------------------------------------------------------- transport
\* What the remote contract answers to ownerOf(id), attempt by attempt: a
\* behaviour [fails, final] answers the first `fails` calls with a transient
\* error and every later call with `final` (an owner, or "invalid" for the
\* invalid-token-ID revert). FreeTransport leaves every answer open.
FreeTransport == [fails |-> 0, final |-> "any"]

\* A contract whose ownerOf(id) call never returns and never throws.
HangTransport == [fails |-> 0, final |-> "hang"]

FixedBehaviours ==
  {[fails |-> 0, final |-> "0xA"],
   [fails |-> 1, final |-> "0xB"],
   [fails |-> 1, final |-> "invalid"],
   [fails |-> Retries, final |-> "0xA"],
   [fails |-> Retries + 1, final |-> "0xB"]}

\* The transient error a fixed transport answers the k-th call with.
TransientAt(k) == IF k % 3 = 1 THEN ErrNetwork ELSE ErrRevert

\* String.prototype.includes on word sequences.
Includes(s, sub) ==
  \E k \in 0..(Len(s) - Len(sub)) : SubSeq(s, k + 1, k + Len(sub)) = sub

\* error.code === 'CALL_EXCEPTION' && error.reason && error.reason.includes('invalid token ID')
IsInvalidTokenIdMutant(error) == FALSE

IsInvalidTokenId(error) ==
  /\ error.code = "CALL_EXCEPTION"
  /\ error.reason # <<>>
  /\ Includes(error.reason, <<"invalid", "token", "ID">>)

\* ------------------------------------------------------------------- state
VARIABLES
  script,         \* which of the two scripts runs
  abiFile,        \* "ok" | "bad": whether ./ContractABI.json reads and parses
  transport,      \* per token id: how the remote contract answers ownerOf
  startTokenId,   \* const startTokenId
  endTokenId,     \* const endTokenId
  batchSize,      \* const batchSize
  pc,             \* position of the module / fetchOwnersInRange / main
  i,              \* the outer loop variable: first id of the current batch
  item,           \* per token id: the state of its promise and retry operation
                  \* (delay: the milliseconds of its pending retry timer)
  results,        \* buffered script: the results array
  csvFile,        \* nft_holders.csv: "missing" | "empty" | "present" (has header)
  csv,            \* the data rows this run has appended to nft_holders.csv
  errorLog,       \* the lines this run has written to error.log
  logStream,      \* errorLogStream: "unopened" | "open" | "ended"
  warned,         \* per token id: number of console.warn "is invalid" lines
  exitCode        \* -1 while the process runs, else its exit status

vars == <<script, abiFile, transport, startTokenId, endTokenId, batchSize, pc, i, item,
          results, csvFile, csv, errorLog, logStream, warned, exitCode>>

config == <<script, abiFile, transport, startTokenId, endTokenId, batchSize>>

Min(a, b) == IF a < b THEN a ELSE b

\* An item before its promise is created.
PendingItem == [st |-> "Pending", attempts |-> 0, owner |-> "none", delay |-> 0]

\* const batchEnd = Math.min(i + batchSize - 1, endTokenId)
BatchEndMutant(lo) == Min(lo + batchSize - 2, endTokenId)

BatchEndWideMutant(lo) == Min(lo + batchSize, endTokenId)

BatchEnd(lo) == Min(lo + batchSize - 1, endTokenId)

\* The ids of the batch that starts at lo: for (let j = i; j <= batchEnd; j++)
Batch(lo) == lo..BatchEnd(lo)

Terminal(st) == st \in {"Succeeded", "Absent", "Failed"}

\* operation.retry(error): true, and a timer is set, while a timeout is left.
\* The operation holds Retries timeouts and each retry takes one, so after
\* `attempts` attempts, attempts - 1 of them are used.
CanRetryMutant(attempts) == attempts < Retries

CanRetry(attempts) == attempts - 1 < Retries

\* Math.pow(b, n)
RECURSIVE Pow(_, _)
Pow(b, n) == IF n = 0 THEN 1 ELSE b * Pow(b, n - 1)

\* The timeout the retry operation holds for its retry number `attempt`
\* (counted from 0): min(minTimeout * factor^attempt, maxTimeout); randomize
\* is off. The timeouts grow with `attempt`, so sorting them changes nothing
\* and the retry after the k-th failed attempt waits CreateTimeout(k - 1).
CreateTimeoutMutant(attempt) == MinTimeout * Pow(Factor, attempt)

CreateTimeout(attempt) == Min(MinTimeout * Pow(Factor, attempt), MaxTimeout)

\* results.sort((a, b) => a[1] - b[1]): a stable sort by token id.
RECURSIVE InsertByIdMutant(_, _)
InsertByIdMutant(row, sorted) ==
  IF sorted = <<>> THEN <<row>>
  ELSE IF Head(sorted)[2] - row[2] < 0 THEN <<row>> \o sorted
  ELSE <<Head(sorted)>> \o InsertByIdMutant(row, Tail(sorted))

RECURSIVE InsertById(_, _)
InsertById(row, sorted) ==
  IF sorted = <<>> THEN <<row>>
  ELSE IF row[2] - Head(sorted)[2] < 0 THEN <<row>> \o sorted
  ELSE <<Head(sorted)>> \o InsertById(row, Tail(sorted))

SortByIdMutant(rows) == rows

RECURSIVE SortById(_)
SortById(rows) ==
  IF rows = <<>> THEN <<>>
  ELSE InsertById(rows[Len(rows)], SortById(SubSeq(rows, 1, Len(rows) - 1)))

\* The synchronous inner loop: one promise per id of the batch, each with a
\* fresh retry operation whose first attempt calls contract.ownerOf(j) at once.
Launch(items, lo) ==
  [id \in TokenIds |->
     IF id \in Batch(lo)
     THEN [st |-> "InFlight", attempts |-> 1, owner |-> "none", delay |-> 0]
     ELSE items[id]]

\* Whether the transport lets the k-th ownerOf(j) return `owner` / throw `error`.
MayReturn(j, k, owner) ==
  \/ transport[j].final = "any"
  \/ k > transport[j].fails /\ transport[j].final = owner

MayThrow(j, k, error) ==
  \/ transport[j].final = "any"
  \/ k <= transport[j].fails /\ error = TransientAt(k)
  \/ k > transport[j].fails /\ transport[j].final = "invalid" /\ error = ErrInvalidTokenId

\* ------------------------------------------------------------------- Init
\* Everything but the transport.
InitProgram ==
  /\ script \in Scripts
  /\ abiFile \in {"ok", "bad"}
  /\ startTokenId \in TokenIds
  /\ endTokenId \in startTokenId..MaxTokenId
  /\ batchSize \in 1..MaxBatchSize
  /\ pc = "module"
  /\ i = 0
  /\ item = [id \in TokenIds |-> PendingItem]
  /\ results = <<>>
  /\ csvFile \in {"missing", "empty", "present"}
  /\ csv = <<>>
  /\ errorLog = <<>>
  /\ logStream = "unopened"
  /\ warned = [id \in TokenIds |-> 0]
  /\ exitCode = -1

\* Any answer to any call.
Init ==
  /\ transport = [id \in TokenIds |-> FreeTransport]
  /\ InitProgram

\* The buffered script against a fixed transport: each id of the range has
\* one of the FixedBehaviours.
InitFixed ==
  /\ InitProgram
  /\ script = "buffered"
  /\ abiFile = "ok"
  /\ transport \in [TokenIds -> FixedBehaviours]
  /\ \A id \in TokenIds \ (startTokenId..endTokenId) :
       transport[id] = [fails |-> 0, final |-> "0xA"]

\* Each id is either answered freely or never answered.
InitHang ==
  /\ InitProgram
  /\ transport \in [TokenIds -> {FreeTransport, HangTransport}]

\* ---------------------------------------------------------------- actions
LoadAbiFailsMutant ==
  /\ pc = "module"
  /\ abiFile = "bad"
  /\ csvFile' = "present"
  /\ logStream' = "open"
  /\ i' = startTokenId
  /\ item' = Launch(item, startTokenId)
  /\ pc' = "batch"
  /\ UNCHANGED <<config, results, csv, errorLog, warned, exitCode>>

\* Module top level when the ABI cannot be read or parsed: process.exit(1).
LoadAbiFails ==
  /\ pc = "module"
  /\ abiFile = "bad"
  /\ pc' = "exited"
  /\ exitCode' = 1
  /\ UNCHANGED <<config, i, item, results, csvFile, csv, errorLog, logStream, warned>>

\* Module top level when the ABI loads: the CSV header is written if the file
\* is missing or empty, error.log is opened, main() calls fetchOwnersInRange(),
\* which runs synchronously up to the first await Promise.all(batchPromises).
ModuleSetup ==
  /\ pc = "module"
  /\ abiFile = "ok"
  /\ csvFile' = "present"
  /\ logStream' = "open"
  /\ i' = startTokenId
  /\ item' = Launch(item, startTokenId)
  /\ pc' = "batch"
  /\ UNCHANGED <<config, results, csv, errorLog, warned, exitCode>>

ExhaustedMutant(j, error) ==
  /\ errorLog' = Append(errorLog, <<j, error.message>>)
  /\ item' = [item EXCEPT ![j] = [st |-> "Failed", attempts |-> 0, owner |-> "none", delay |-> 0]]
  /\ pc' = "caught"
  /\ logStream' = "ended"
  /\ exitCode' = 0
  /\ UNCHANGED warned

ExhaustedSilentMutant(j, error) ==
  /\ item' = [item EXCEPT ![j] = [st |-> "Failed", attempts |-> 0, owner |-> "none", delay |-> 0]]
  /\ UNCHANGED <<pc, warned, errorLog, logStream, exitCode>>

\* The retries are used up: the failure is logged and the promise resolved.
Exhausted(j, error) ==
  /\ errorLog' = Append(errorLog, <<j, error.message>>)
  /\ item' = [item EXCEPT ![j] = [st |-> "Failed", attempts |-> 0, owner |-> "none", delay |-> 0]]
  /\ UNCHANGED <<pc, warned, logStream, exitCode>>

\* The catch block of an attempt of item j.
Catch(j, error) ==
  IF IsInvalidTokenId(error)
  THEN /\ warned' = [warned EXCEPT ![j] = @ + 1]
       /\ item' = [item EXCEPT ![j] = [st |-> "Absent", attempts |-> 0, owner |-> "none", delay |-> 0]]
       /\ UNCHANGED <<pc, errorLog, logStream, exitCode>>
  ELSE IF CanRetry(item[j].attempts)
  THEN /\ item' = [item EXCEPT ![j] = [st |-> "RetryScheduled",
                                       attempts |-> item[j].attempts,
                                       owner |-> "none",
                                       delay |-> CreateTimeout(item[j].attempts - 1)]]
       /\ UNCHANGED <<pc, warned, errorLog, logStream, exitCode>>
  ELSE Exhausted(j, error)

\* await contract.ownerOf(j) returns an owner.
OwnerOfResolves(j, owner) ==
  /\ item[j].st = "InFlight"
  /\ MayReturn(j, item[j].attempts, owner)
  /\ IF script = "buffered"
     THEN /\ results' = Append(results, <<owner, j>>)
          /\ item' = [item EXCEPT ![j] = [st |-> "Succeeded", attempts |-> 0, owner |-> owner, delay |-> 0]]
     ELSE /\ item' = [item EXCEPT ![j] = [st |-> "Writing",
                                          attempts |-> item[j].attempts,
                                          owner |-> owner, delay |-> 0]]
          /\ UNCHANGED results
  /\ UNCHANGED <<config, pc, i, csvFile, csv, errorLog, logStream, warned, exitCode>>

\* await contract.ownerOf(j) throws.
OwnerOfRejects(j, error) ==
  /\ item[j].st = "InFlight"
  /\ MayThrow(j, item[j].attempts, error)
  /\ Catch(j, error)
  /\ UNCHANGED <<config, i, results, csvFile, csv>>

\* Immediate script: await csvWriter.writeRecords([[owner, j]]) completes.
WriteRecordResolves(j) ==
  /\ item[j].st = "Writing"
  /\ csv' = Append(csv, <<item[j].owner, j>>)
  /\ item' = [item EXCEPT ![j] = [st |-> "Succeeded", attempts |-> 0, owner |-> item[j].owner, delay |-> 0]]
  /\ UNCHANGED <<config, pc, i, results, csvFile, errorLog, logStream, warned, exitCode>>

\* Immediate script: await csvWriter.writeRecords([[owner, j]]) throws, into
\* the same catch block as a failed ownerOf.
WriteRecordRejects(j) ==
  /\ item[j].st = "Writing"
  /\ Catch(j, ErrWrite)
  /\ UNCHANGED <<config, i, results, csvFile, csv>>

\* The timer set by operation.retry fires: the next attempt calls ownerOf.
RetryTimerFires(j) ==
  /\ item[j].st = "RetryScheduled"
  /\ item' = [item EXCEPT ![j] = [st |-> "InFlight",
                                  attempts |-> item[j].attempts + 1,
                                  owner |-> "none", delay |-> 0]]
  /\ UNCHANGED <<config, pc, i, results, csvFile, csv, errorLog, logStream, warned, exitCode>>

\* await Promise.all(batchPromises) resumes once every promise of the batch
\* is resolved; the pacing timer is set.
AllSettledMutant(lo) == \E id \in Batch(lo) : Terminal(item[id].st)

AllSettledLeakMutant(lo) == \A id \in Batch(lo) : item[id].st \in {"Succeeded", "Failed"}

AllSettled(lo) == \A id \in Batch(lo) : Terminal(item[id].st)

PromiseAllResolves ==
  /\ pc = "batch"
  /\ AllSettled(i)
  /\ pc' = "pacing"
  /\ UNCHANGED <<config, i, item, results, csvFile, csv, errorLog, logStream, warned, exitCode>>

\* for (...; i += batchSize)
NextBatchStartMutant(lo) == lo + batchSize - 1

NextBatchStart(lo) == lo + batchSize

\* The pacing timer fires: i += batchSize; either the next batch is launched,
\* or the loop ends. At the loop's end the buffered script sorts results and
\* starts the single write; the immediate script returns to main, which ends
\* the log stream.
PacingElapsed ==
  /\ pc = "pacing"
  /\ i' = NextBatchStart(i)
  /\ IF i' <= endTokenId
     THEN /\ item' = Launch(item, i')
          /\ pc' = "batch"
          /\ UNCHANGED <<results, logStream, exitCode>>
     ELSE IF script = "buffered"
     THEN /\ results' = SortById(results)
          /\ pc' = "finalWrite"
          /\ UNCHANGED <<item, logStream, exitCode>>
     ELSE /\ pc' = "done"
          /\ logStream' = "ended"
          /\ exitCode' = 0
          /\ UNCHANGED <<item, results>>
  /\ UNCHANGED <<config, csvFile, csv, errorLog, warned>>

\* Buffered script: await csvWriter.writeRecords(results) completes; main logs
\* success and ends the log stream.
FinalWriteResolves ==
  /\ pc = "finalWrite"
  /\ csv' = csv \o results
  /\ pc' = "done"
  /\ logStream' = "ended"
  /\ exitCode' = 0
  /\ UNCHANGED <<config, i, item, results, csvFile, errorLog, warned>>

\* Buffered script: await csvWriter.writeRecords(results) throws;
\* fetchOwnersInRange rethrows, main catches and ends the log stream.
FinalWriteRejects ==
  /\ pc = "finalWrite"
  /\ pc' = "caught"
  /\ logStream' = "ended"
  /\ exitCode' = 0
  /\ UNCHANGED <<config, i, item, results, csvFile, csv, errorLog, warned>>

Next ==
  \/ LoadAbiFails
  \/ ModuleSetup
  \/ \E j \in TokenIds, owner \in Owners : OwnerOfResolves(j, owner)
  \/ \E j \in TokenIds, error \in OwnerOfErrors : OwnerOfRejects(j, error)
  \/ \E j \in TokenIds : WriteRecordResolves(j)
  \/ \E j \in TokenIds : WriteRecordRejects(j)
  \/ \E j \in TokenIds : RetryTimerFires(j)
  \/ PromiseAllResolves
  \/ PacingElapsed
  \/ FinalWriteResolves
  \/ FinalWriteRejects

Spec == Init /\ [][Next]_vars

\* What the event loop and the environment guarantee: as long as some step
\* is possible (a timer is set, a continuation is ready, a write or an
\* ownerOf call is outstanding), some step happens: timers fire, and (the
\* assumption of a responsive contract and file system) calls and writes
\* return or throw. Weak fairness of each single step implies this.
Fairness == WF_vars(Next)

\* Either script against a responsive contract.
SpecLive == Init /\ [][Next]_vars /\ Fairness

\* Either script against a transport that may leave calls unanswered.
SpecHang == InitHang /\ [][Next]_vars

\* The buffered script against a fixed transport.
NextBuffered ==
  \/ ModuleSetup
  \/ \E j \in TokenIds, owner \in Owners : OwnerOfResolves(j, owner)
  \/ \E j \in TokenIds, error \in OwnerOfErrors : OwnerOfRejects(j, error)
  \/ \E j \in TokenIds : RetryTimerFires(j)
  \/ PromiseAllResolves
  \/ PacingElapsed
  \/ FinalWriteResolves
  \/ FinalWriteRejects

SpecFixed == InitFixed /\ [][NextBuffered]_vars

\* ------------------------------------------------------------- type check
ItemStates ==
  {"Pending", "InFlight", "Writing", "RetryScheduled", "Succeeded", "Absent", "Failed"}

TypeOK ==
  /\ script \in Scripts
  /\ abiFile \in {"ok", "bad"}
  /\ startTokenId \in TokenIds
  /\ endTokenId \in startTokenId..MaxTokenId
  /\ batchSize \in 1..MaxBatchSize
  /\ pc \in {"module", "exited", "batch", "pacing", "finalWrite", "done", "caught"}
  /\ \A id \in TokenIds :
       /\ item[id].st \in ItemStates
       /\ item[id].attempts \in 0..(Retries + 1)
       /\ item[id].owner \in Owners \cup {"none"}
       /\ item[id].delay \in 0..MaxTimeout
  /\ logStream \in {"unopened", "open", "ended"}
  /\ exitCode \in {-1, 0, 1}

\* ===================================================================== claims
\* The ids of the range of the run.
InRange == startTokenId..endTokenId

\* How many rows of `rows` carry token id `id`.
RowsOf(rows, id) == Cardinality({k \in 1..Len(rows) : rows[k][2] = id})

\* How many lines of error.log are about token id `id`.
LinesOf(id) == Cardinality({k \in 1..Len(errorLog) : errorLog[k][1] = id})

\* The token ids of `rows`.
IdsOf(rows) == {rows[k][2] : k \in 1..Len(rows)}

\* Where a script records an owner: the results array, or the table itself.
Recorded == IF script = "buffered" THEN results ELSE csv

\* The terminal outcomes produced for `id`: owner recorded, reported invalid,
\* reported failed.
Outcomes(id) == RowsOf(Recorded, id) + warned[id] + LinesOf(id)

\* fetchOwnersInRange has returned or thrown.
Returned == pc \in {"done", "caught"}

\* The loop of fetchOwnersInRange is over.
LoopOver == pc \in {"finalWrite", "done", "caught"}

StrictlyAscending(rows) ==
  \A k \in 1..(Len(rows) - 1) : rows[k][2] < rows[k + 1][2]

Ascending(rows) ==
  \A k \in 1..(Len(rows) - 1) : rows[k][2] <= rows[k + 1][2]

\* C1: once fetchOwnersInRange has completed, every token id of the range has
\* produced exactly one terminal outcome (an owner recorded, an "is invalid"
\* report, or a failure line), and at no time has any id produced two.
C1_ExactlyOneOutcome ==
  /\ \A id \in TokenIds : Outcomes(id) <= 1
  /\ Returned => \A id \in InRange : Outcomes(id) = 1

\* A completed run whose range holds an owned, an absent and a failed id.
C1_Witness ==
  /\ pc = "done"
  /\ \E a, b, c \in InRange :
       /\ item[a].st = "Succeeded"
       /\ item[b].st = "Absent"
       /\ item[c].st = "Failed"

\* C2 as stated: at the end of a buffered run the token ids of the results
\* array are exactly the ids of the range, each once.
C2_ResultsCoverRange ==
  (script = "buffered" /\ LoopOver) =>
    /\ IdsOf(results) = InRange
    /\ Len(results) = Cardinality(InRange)

\* C2 amended: at the end of a buffered run the token ids of the results
\* array are exactly the ids of the range for which ownerOf returned an
\* owner, each once; an absent or failed id is not in it.
C2_ResultsHoldOwnedIds ==
  (script = "buffered" /\ LoopOver) =>
    /\ IdsOf(results) = {id \in InRange : item[id].st = "Succeeded"}
    /\ \A id \in TokenIds : RowsOf(results, id) <= 1

\* The end of a buffered run with an owned, an absent and a failed id.
C2_Witness ==
  /\ script = "buffered"
  /\ pc = "done"
  /\ results # <<>>
  /\ \E b, c \in InRange : item[b].st = "Absent" /\ item[c].st = "Failed"

\* C3: the rows the buffered script writes to the table are strictly
\* ascending by token id.
C3_BufferedRowsAscending ==
  script = "buffered" => StrictlyAscending(csv)

\* A buffered run has written two rows of ids fetched in the same batch.
C3_Witness ==
  /\ script = "buffered"
  /\ batchSize >= 2
  /\ Len(csv) >= 2
  /\ csv[2][2] <= startTokenId + batchSize - 1

\* C4 as stated: the rows the immediate-write script appends to the table are
\* in ascending token-id order.
C4_ImmediateRowsAscending ==
  script = "immediate" => Ascending(csv)

\* What one id ends in, by its fixed transport behaviour alone: the call is
\* made again after each of up to Retries transient answers.
ReferenceOutcome(b) == IF b.fails > Retries THEN "failed" ELSE b.final

\* The rows of the ids lo..hi that have an owner, in ascending id order.
RECURSIVE ReferenceRows(_, _)
ReferenceRows(lo, hi) ==
  IF lo > hi THEN <<>>
  ELSE (IF ReferenceOutcome(transport[lo]) \in Owners
        THEN << <<ReferenceOutcome(transport[lo]), lo>> >>
        ELSE <<>>) \o ReferenceRows(lo + 1, hi)

\* C5: against a fixed transport the rows a completed buffered run has
\* written are a function of the range and the transport alone (the owned ids
\* ascending, each with its owner), whatever the batch size; so the runs with
\* any two batch sizes over the same range and transport write the same rows
\* in the same order.
C5_BatchSizeInvariance ==
  pc = "done" => csv = ReferenceRows(startTokenId, endTokenId)

\* A completed run of more than one batch, with a batch of several ids, that
\* wrote the row of an id which needed a retry.
C5_Witness ==
  /\ pc = "done"
  /\ batchSize > 1
  /\ endTokenId - startTokenId + 1 > batchSize
  /\ Len(csv) >= 2
  /\ \E k \in 1..Len(csv) : transport[csv[k][2]].fails >= 1

\* C6: whenever ownerOf throws the invalid-token-ID error for an id, at the
\* first attempt or at a retry, the item is Absent after that step (no retry
\* is scheduled), and an Absent item never changes again (no further call).
C6_InvalidEndsAbsent ==
  [][\A j \in TokenIds :
       /\ OwnerOfRejects(j, ErrInvalidTokenId) => item'[j].st = "Absent"
       /\ item[j].st = "Absent" => item'[j] = item[j]]_vars

\* An id reported invalid and Absent while a sibling of its batch is still
\* being fetched.
C6_Witness ==
  \E j, k \in InRange :
    /\ item[j].st = "Absent"
    /\ warned[j] = 1
    /\ item[k].st \in {"InFlight", "RetryScheduled"}

\* Item j reaches Failed in this step.
BecomesFailed(j) == item[j].st # "Failed" /\ item'[j].st = "Failed"

\* C7 as stated, with maxAttempts the configured retries (10): an item
\* reaches Failed after exactly Retries attempts.
C7_FailedAfterRetriesAttempts ==
  [][\A j \in TokenIds : BecomesFailed(j) => item[j].attempts = Retries]_vars

\* C7 amended: an item reaches Failed after exactly Retries + 1 attempts (the
\* first attempt and Retries retries); the step writes one line to the
\* diagnostic log, with the message of the error of that last attempt, and
\* a Failed item has exactly one line in the log.
C7_FailedAfterAllAttempts ==
  /\ [][\A j \in TokenIds :
          BecomesFailed(j) =>
            /\ item[j].attempts = Retries + 1
            /\ \A e \in OwnerOfErrors :
                 OwnerOfRejects(j, e) => errorLog' = Append(errorLog, <<j, e.message>>)]_vars
  /\ [](\A j \in TokenIds : item[j].st = "Failed" <=> LinesOf(j) = 1)
  /\ [](\A j \in TokenIds : LinesOf(j) <= 1)

\* A buffered run (where only ownerOf can fail) has a Failed item, logged
\* with the message of a transient ownerOf error.
C7_Witness ==
  /\ script = "buffered"
  /\ \E j \in InRange :
       /\ item[j].st = "Failed"
       /\ errorLog = << <<j, ErrNetwork.message>> >>

\* C8: the step in which an item ends Failed changes no other item and does
\* not move the scheduler; and when fetchOwnersInRange has returned, every id
\* of the range, in every batch, is terminal.
C8_FailureIsolated ==
  /\ [][\A j \in TokenIds :
          BecomesFailed(j) =>
            /\ pc' = pc
            /\ i' = i
            /\ \A k \in TokenIds \ {j} : item'[k] = item[k]]_vars
  /\ [](Returned => \A id \in InRange : Terminal(item[id].st))

\* A completed run in which an id Failed, a sibling of its batch succeeded
\* and an id of a later batch was fetched too.
C8_Witness ==
  /\ pc = "done"
  /\ batchSize = 2
  /\ \E f \in InRange :
       /\ f + 2 \in InRange
       /\ f = startTokenId
       /\ item[f].st = "Failed"
       /\ item[f + 1].st = "Succeeded"
       /\ item[f + 2].st = "Succeeded"

\* C9: when the ABI cannot be loaded the process does nothing but exit with
\* status 1: no ownerOf call is made, the table is neither created nor
\* written and the diagnostic log is not opened.
C9_SetupFailureExits ==
  /\ [](abiFile = "bad" =>
          /\ pc \in {"module", "exited"}
          /\ (pc = "exited" <=> exitCode = 1)
          /\ (pc = "module" <=> exitCode = -1)
          /\ \A id \in TokenIds : item[id] = PendingItem
          /\ logStream = "unopened"
          /\ csv = <<>> /\ errorLog = <<>> /\ results = <<>>)
  /\ [][abiFile = "bad" => csvFile' = csvFile]_vars

\* The process has exited with status 1 and the table still does not exist.
C9_Witness ==
  /\ abiFile = "bad"
  /\ pc = "exited"
  /\ exitCode = 1
  /\ csvFile = "missing"

\* The batch of an id: the windows of batchSize ids from startTokenId.
BatchIndex(id) == (id - startTokenId) \div batchSize

\* The ids whose first ownerOf call is made in this step.
Started == {j \in TokenIds : item[j].st = "Pending" /\ item'[j].st # "Pending"}

\* C10: an id has been called only if every id of every earlier batch is
\* terminal; first calls are made only by the module start or by the step
\* that ends a pacing delay, which is entered only with the whole batch
\* terminal; and the ids started together are exactly the next batch in
\* ascending order, the lowest batch with an id not yet started.
C10_BatchBarrier ==
  /\ [](\A a, b \in InRange :
          (BatchIndex(a) < BatchIndex(b) /\ item[b].st # "Pending")
            => Terminal(item[a].st))
  /\ [](pc = "pacing" =>
          \A a \in InRange : item[a].st # "Pending" => Terminal(item[a].st))
  /\ [][Started # {} =>
          /\ pc \in {"module", "pacing"}
          /\ \E n \in 0..MaxTokenId :
               /\ Started = {j \in InRange : BatchIndex(j) = n}
               /\ \A j \in InRange :
                    (item[j].st = "Pending") <=> (BatchIndex(j) >= n)]_vars

\* An id of a later batch is in flight after an id of an earlier batch used
\* up its retries.
C10_Witness ==
  \E a, b \in InRange :
    /\ BatchIndex(a) < BatchIndex(b)
    /\ item[a].st = "Failed"
    /\ item[b].st = "InFlight"

\* The ids whose fetch is under way: in flight, writing or waiting for a retry.
NonTerminal == {j \in TokenIds : item[j].st \in {"InFlight", "Writing", "RetryScheduled"}}

\* C11: at most batchSize items are non-terminal, and all of them lie in one
\* window of batchSize consecutive ids counted from startTokenId and cut at
\* endTokenId (the last window may be shorter).
C11_BoundedInFlight ==
  /\ Cardinality(NonTerminal) <= batchSize
  /\ NonTerminal \subseteq InRange
  /\ \A a, b \in NonTerminal : BatchIndex(a) = BatchIndex(b)

\* The last, shorter window is under way: fewer ids than batchSize are left
\* and one of them is waiting for a retry.
C11_Witness ==
  /\ batchSize = 2
  /\ NonTerminal = {endTokenId}
  /\ BatchIndex(endTokenId) = 1
  /\ endTokenId = startTokenId + 2
  /\ item[endTokenId].st = "RetryScheduled"

\* The delays the claim lists for the retries after failed attempts 1..5.
ListedDelays == <<1000, 2000, 4000, 8000, 8000>>

\* C12: the retry scheduled after the k-th failed attempt of an item waits
\* 1000, 2000, 4000, 8000, 8000 ms for k = 1..5, min(1000 * 2^(k-1), 8000) ms
\* for every k, and never more than 8000 ms.
C12_RetryDelays ==
  \A j \in TokenIds :
    item[j].st = "RetryScheduled" =>
      /\ item[j].attempts <= 5 => item[j].delay = ListedDelays[item[j].attempts]
      /\ item[j].attempts >= 4 => item[j].delay = 8000
      /\ item[j].delay = Min(1000 * Pow(2, item[j].attempts - 1), 8000)
      /\ item[j].delay <= 8000

\* A retry is scheduled after the fifth failed attempt, at the capped delay.
C12_Witness ==
  \E j \in InRange :
    /\ item[j].st = "RetryScheduled"
    /\ item[j].attempts = 5
    /\ item[j].delay = 8000

\* C13: once an item is Succeeded, Absent or Failed, no step changes it: no
\* ownerOf call is made for it (it never is InFlight again) and no retry timer
\* is set for it.
C13_TerminalIsFinal ==
  [][\A j \in TokenIds : Terminal(item[j].st) => item'[j] = item[j]]_vars

\* One id of each terminal kind while the fetch of a later batch goes on.
C13_Witness ==
  /\ pc = "batch"
  /\ \E a, b, c \in InRange :
       /\ item[a].st = "Succeeded"
       /\ item[b].st = "Failed"
       /\ BatchIndex(a) = BatchIndex(b)
       /\ BatchIndex(b) < BatchIndex(c)
       /\ item[c].st = "RetryScheduled"

\* C14 as stated: a call that never returns is turned into a transient
\* failure and retried, so the run is never stuck at a batch barrier: while
\* fetchOwnersInRange waits for a batch, some step is still possible.
C14_BarrierNeverStalls ==
  pc = "batch" => ENABLED Next

\* The process is over: main has run to its end, or process.exit was called.
Finished == pc \in {"done", "caught", "exited"}

\* C15: when every ownerOf call returns or throws and every timer fires, the
\* run ends, and unless it ended at the ABI failure every id of the range has
\* been attempted and is terminal by then (so every batch barrier was passed
\* and fetchOwnersInRange returned or threw).
C15_RunTerminates ==
  <>(Finished /\ (pc # "exited" => \A id \in InRange : Terminal(item[id].st)))

\* A run over several batches has ended although every id of the range used
\* up its retries.
C15_Witness ==
  /\ pc = "done"
  /\ endTokenId - startTokenId + 1 > batchSize
  /\ batchSize > 1
  /\ \A id \in InRange : item[id].st = "Failed"

\* The csvWriter.writeRecords calls that have been started and have neither
\* completed nor failed: one per item that is writing its row (immediate
\* script), and the single write of the results (buffered script).
WritesInProgress ==
  Cardinality({j \in TokenIds : item[j].st = "Writing"})
    + (IF pc = "finalWrite" THEN 1 ELSE 0)

\* C16 as stated: at no time are two writes of rows to the table in progress.
C16_OneWriterAtATime ==
  WritesInProgress <= 1

\* C17: in the buffered script the table has no data row of the run until
\* the run is done; the only step that changes the rows is the completion of
\* the single write, made with every id of the range terminal, and it writes
\* the whole sorted results array at once.
C17_SingleFinalWrite ==
  /\ []((script = "buffered" /\ pc # "done") => csv = <<>>)
  /\ [][(script = "buffered" /\ csv' # csv) =>
          /\ pc = "finalWrite" /\ pc' = "done"
          /\ \A id \in InRange : Terminal(item[id].st)
          /\ csv = <<>>
          /\ csv' = results
          /\ StrictlyAscending(results)]_vars

\* A buffered run of several batches is done and has written several rows.
C17_Witness ==
  /\ script = "buffered"
  /\ pc = "done"
  /\ endTokenId - startTokenId + 1 > batchSize
  /\ Len(csv) >= 2

\* C18 as stated: once the run has returned or thrown, the table holds
\* exactly one row for each owned id of the range and none for an absent or
\* failed id; a failed id has exactly one line in error.log, an absent or
\* owned id none.
C18_RowPerOwnedId ==
  Returned =>
    \A id \in InRange :
      /\ RowsOf(csv, id) = (IF item[id].st = "Succeeded" THEN 1 ELSE 0)
      /\ LinesOf(id) = (IF item[id].st = "Failed" THEN 1 ELSE 0)

\* C18 amended: at every time a row of the table is the row (owner, id) of
\* an owned id, at most one per id, and an id has one line in error.log if
\* it is failed and none otherwise; when the run returns normally every
\* owned id of the range has its row; when the final write of the buffered
\* script fails, the run throws and the table has no row at all.
C18_RowPerOwnedIdWritten ==
  /\ \A id \in TokenIds :
       /\ RowsOf(csv, id) <= 1
       /\ RowsOf(csv, id) = 1 => item[id].st = "Succeeded"
       /\ \A k \in 1..Len(csv) : csv[k][2] = id => csv[k][1] = item[id].owner
       /\ LinesOf(id) = (IF item[id].st = "Failed" THEN 1 ELSE 0)
  /\ pc = "done" =>
       \A id \in InRange : item[id].st = "Succeeded" => RowsOf(csv, id) = 1
  /\ pc = "caught" => csv = <<>>

\* A run that returned normally with an owned id that has its row, an absent
\* id without row or line, and a failed id that has its line.
C18_Witness ==
  /\ pc = "done"
  /\ \E a, b, c \in InRange :
       /\ item[a].st = "Succeeded" /\ RowsOf(csv, a) = 1 /\ LinesOf(a) = 0
       /\ item[b].st = "Absent" /\ RowsOf(csv, b) = 0 /\ LinesOf(b) = 0
       /\ item[c].st = "Failed" /\ RowsOf(csv, c) = 0 /\ LinesOf(c) = 1

\* C19 as stated: in the immediate-write script an id whose ownerOf call has
\* returned an owner (its row is being written) only ever becomes owned: no
\* retry is scheduled for it, which would call ownerOf again, and it does
\* not become failed.
C19_OwnerFetchedOnce ==
  [][\A j \in TokenIds :
       (script = "immediate" /\ item[j].st = "Writing") =>
         item'[j].st \in {"Writing", "Succeeded"}]_vars

\* C20: when errorLogStream.end() has been called no item is in flight,
\* being written or waiting for a retry, and every id of the range is
\* terminal; from then on error.log does not change. This holds where
\* fetchOwnersInRange returns and where it throws.
C20_LogEndedAfterItems ==
  /\ [](logStream = "ended" =>
          /\ NonTerminal = {}
          /\ \A id \in InRange : Terminal(item[id].st)
          /\ Returned)
  /\ [][logStream = "ended" => errorLog' = errorLog /\ item' = item]_vars

\* fetchOwnersInRange has thrown after an id was logged as failed, and the
\* stream is ended.
C20_Witness ==
  /\ pc = "caught"
  /\ logStream = "ended"
  /\ errorLog # <<>>

====
